---- MODULE Spec2Model ----
\* Model of socketioxide-emitter: the IoEmitter builder (src/src/lib.rs), the
\* request envelope and its MessagePack serialization (src/src/requests.rs) and
\* the error type of emit (src/src/emit.rs).
EXTENDS Integers, Sequences, FiniteSets, TLC

----------------------------------------------------------------------------
\* Bounds of the model.

\* number of builder values (IoEmitter) created by new, new_msgpack and clone
MaxBuilders == 2
\* total number of setter calls (of, to, within, except, prefix)
MaxSetters == 2

Rooms == {"r1", "r2"}
RoomArgs == {<<"r1">>, <<"r2", "r1", "r2">>}
NsArgs == {"/admin", ""}
PrefixArgs == {"custom", "other"}
Events == {"test"}
\* message values handed to emit; "unserializable" is a value whose Serialize
\* implementation fails
Msgs == {"2", "unserializable"}
\* values Uid::new() and Sid::new() can return: random identifiers, written as
\* numbers, one more than there can be requests
Uids == 1..(MaxBuilders + 1)
Sids == 1..(MaxBuilders + 1)
\* errors the driver can return
DriverErrors == {"e1", "e2"}

None == [some |-> FALSE]
Some(v) == [some |-> TRUE, v |-> v]
NoBuilder == [live |-> FALSE]

VARIABLES
    builders,   \* the IoEmitter values in creation order; NoBuilder once moved
    hist,       \* for each of them, the history of the setter calls made on it
    nsetters,   \* number of setter calls so far
    calls,      \* the terminal calls made so far, in call order
    transport,  \* the driver's record of emit(channel, data) invocations
    rng         \* the values returned so far by Uid::new() and Sid::new()

vars == <<builders, hist, nsetters, calls, transport, rng>>

----------------------------------------------------------------------------
\* requests.rs

\* RequestType variants
Broadcast(p) == [variant |-> "Broadcast", packet |-> p]
DisconnectSockets == [variant |-> "DisconnectSockets"]
AddSockets(r) == [variant |-> "AddSockets", rooms |-> r]
DelSockets(r) == [variant |-> "DelSockets", rooms |-> r]

\* to_u8 numbering the variants 0, 1, 2, 3 in declaration order
to_u8_sequential(type) ==
    CASE type.variant = "Broadcast" -> 0
      [] type.variant = "DisconnectSockets" -> 1
      [] type.variant = "AddSockets" -> 2
      [] type.variant = "DelSockets" -> 3

to_u8(type) ==
    CASE type.variant = "Broadcast" -> 0
      [] type.variant = "DisconnectSockets" -> 2
      [] type.variant = "AddSockets" -> 4
      [] type.variant = "DelSockets" -> 5

\* Request::new with one node_id for the whole process
Request_new_fixed_node(type, opts, uid, sid) ==
    [node_id |-> 1, id |-> sid, type |-> type, opts |-> opts]

\* Request::new: node_id and id are the results of Uid::new() and Sid::new()
Request_new(type, opts, uid, sid) ==
    [node_id |-> uid, id |-> sid, type |-> type, opts |-> opts]

\* RawRequest giving every variant but Broadcast a room list
RawRequest_rooms_always(req) ==
    [node_id |-> req.node_id,
     id |-> req.id,
     type |-> to_u8(req.type),
     packet |-> IF req.type.variant = "Broadcast"
                THEN Some(req.type.packet) ELSE None,
     rooms |-> IF req.type.variant \in {"AddSockets", "DelSockets"}
               THEN Some(req.type.rooms)
               ELSE IF req.type.variant = "DisconnectSockets"
                    THEN Some(<<>>) ELSE None,
     opts |-> req.opts]

\* the RawRequest built by impl Serialize for Request
RawRequest(req) ==
    [node_id |-> req.node_id,
     id |-> req.id,
     type |-> to_u8(req.type),
     packet |-> IF req.type.variant = "Broadcast"
                THEN Some(req.type.packet) ELSE None,
     rooms |-> IF req.type.variant \in {"AddSockets", "DelSockets"}
               THEN Some(req.type.rooms) ELSE None,
     opts |-> req.opts]

\* MessagePack items. Framing items are bytes; the encodings of the values of
\* socketioxide_core (Uid, Sid, Packet, BroadcastOptions) and of the room
\* array are kept as one item each.
mp_byte(b) == [t |-> "byte", v |-> b]
mp_fixarray(n) == mp_byte(144 + n)
mp_nil == mp_byte(192)
mp_u8(n) == mp_byte(n)
mp_value(kind, v) == [t |-> kind, v |-> v]
mp_option(kind, o) == IF o.some THEN mp_value(kind, o.v) ELSE mp_nil

\* to_vec leaving out the None fields (as skip_serializing_if would)
to_vec_skip_none(raw) ==
    LET packet == IF raw.packet.some
                  THEN <<mp_value("packet", raw.packet.v)>> ELSE <<>>
        rooms == IF raw.rooms.some
                 THEN <<mp_value("rooms", raw.rooms.v)>> ELSE <<>>
    IN <<mp_fixarray(4 + Len(packet) + Len(rooms)),
         mp_value("uid", raw.node_id),
         mp_value("sid", raw.id),
         mp_u8(raw.type)>>
       \o packet \o rooms \o <<mp_value("opts", raw.opts)>>

\* rmp_serde::to_vec of the derived Serialize of RawRequest: a struct is
\* written as an array of its fields in declaration order, None as nil
to_vec(raw) ==
    <<mp_fixarray(6),
      mp_value("uid", raw.node_id),
      mp_value("sid", raw.id),
      mp_u8(raw.type),
      mp_option("packet", raw.packet),
      mp_option("rooms", raw.rooms),
      mp_value("opts", raw.opts)>>

----------------------------------------------------------------------------
\* lib.rs

\* BroadcastOptions::default()
DefaultOpts == [rooms |-> <<>>, except |-> <<>>, flags |-> {}]

add_flag(opts, flag) == [opts EXCEPT !.flags = @ \cup {flag}]

\* impl Default for IoEmitter (emit::Parser::default() is Common)
Default ==
    [live |-> TRUE,
     opts |-> add_flag(DefaultOpts, "Broadcast"),
     ns |-> "/",
     prefix |-> None,
     parser |-> "Common"]

new == Default
\* new_msgpack filling every field itself instead of taking the others from
\* Default::default()
new_msgpack_without_default ==
    [live |-> TRUE, opts |-> DefaultOpts, ns |-> "/", prefix |-> None,
     parser |-> "MsgPack"]

new_msgpack == [Default EXCEPT !.parser = "MsgPack"]

\* of keeping the first namespace that was set
of_first_wins(self, ns) == IF self.ns = "/" THEN [self EXCEPT !.ns = ns] ELSE self

of(self, ns) == [self EXCEPT !.ns = ns]
\* to replacing the rooms instead of extending them
to_replace(self, rooms) == [self EXCEPT !.opts.rooms = rooms]

to(self, rooms) == [self EXCEPT !.opts.rooms = @ \o rooms]
within(self, rooms) == to(self, rooms)
except(self, rooms) == [self EXCEPT !.opts.except = @ \o rooms]
prefix(self, p) == [self EXCEPT !.prefix = Some(p)]

\* get_channel with the default prefix whatever the builder's prefix
get_channel_default_prefix(self) == "socket.io" \o "-request#" \o self.ns \o "#"

get_channel(self) ==
    LET p == IF self.prefix.some THEN self.prefix.v ELSE "socket.io"
    IN p \o "-request#" \o self.ns \o "#"

serialize(opts, req_type, uid, sid) ==
    to_vec(RawRequest(Request_new(req_type, opts, uid, sid)))

\* Results. A driver returns Ok or Err(e); emit wraps the error in EmitError.
Ok == [ok |-> TRUE, kind |-> "Ok", err |-> "-"]
Err(kind, e) == [ok |-> FALSE, kind |-> kind, err |-> e]
DriverOutcomes == {Ok} \cup {Err("D::Error", e) : e \in DriverErrors}

\* Parse::encode_value of CommonParser / MsgPackParser: the common parser gives
\* a Value::Str, the msgpack parser a Value::Bytes; a value that cannot be
\* serialized gives a ParserError
encode_value(parser, msg, event) ==
    IF msg = "unserializable"
    THEN Err("ParserError", parser)
    ELSE [ok |-> TRUE, kind |-> "Ok", err |-> "-",
          value |-> [kind |-> IF parser = "Common" THEN "Str" ELSE "Bytes",
                     event |-> event, data |-> msg]]

\* What a terminal call does when it is polled, up to its await of
\* driver.emit: the driver invocations it makes (sent), the identifiers its
\* Request::new calls drew (drawn) and, when it returns without awaiting the
\* driver, its return value (ret).
Awaiting(chan, data, uid, sid) ==
    [sent |-> <<[chan |-> chan, data |-> data]>>,
     drawn |-> <<[uid |-> uid, sid |-> sid]>>,
     ret |-> None]
Returned(r) == [sent |-> <<>>, drawn |-> <<>>, ret |-> Some(r)]

\* join collecting the rooms without their duplicates
RECURSIVE Dedup(_)
Dedup(rooms) ==
    IF rooms = <<>> THEN <<>>
    ELSE LET init == Dedup(SubSeq(rooms, 1, Len(rooms) - 1))
             last == rooms[Len(rooms)]
         IN IF \E k \in 1..Len(init) : init[k] = last
            THEN init ELSE Append(init, last)
join_dedup(self, rooms, uid, sid) ==
    LET chan == get_channel(self)
        data == serialize(self.opts, AddSockets(Dedup(rooms)), uid, sid)
    IN Awaiting(chan, data, uid, sid)

join(self, rooms, uid, sid) ==
    LET chan == get_channel(self)
        data == serialize(self.opts, AddSockets(rooms), uid, sid)
    IN Awaiting(chan, data, uid, sid)

leave(self, rooms, uid, sid) ==
    LET chan == get_channel(self)
        data == serialize(self.opts, DelSockets(rooms), uid, sid)
    IN Awaiting(chan, data, uid, sid)

disconnect(self, uid, sid) ==
    LET chan == get_channel(self)
        data == serialize(self.opts, DisconnectSockets, uid, sid)
    IN Awaiting(chan, data, uid, sid)

\* emit handing a packet without value to the driver before it returns the
\* encoding error
emit_sends_before_encoding(self, event, msg, uid, sid) ==
    LET value == encode_value(self.parser, msg, event)
        chan == get_channel(self)
        packet == [inner |-> [variant |-> "Event",
                              value |-> IF value.ok THEN value.value ELSE None,
                              ack |-> None],
                   ns |-> self.ns]
        data == serialize(self.opts, Broadcast(packet), uid, sid)
    IN IF ~value.ok
       THEN [Awaiting(chan, data, uid, sid) EXCEPT
                !.ret = Some(Err("Parser", value.err))]
       ELSE Awaiting(chan, data, uid, sid)

\* emit refusing an empty namespace with an error of its own
emit_rejects_empty_ns(self, event, msg, uid, sid) ==
    LET value == encode_value(self.parser, msg, event)
    IN IF ~value.ok
       THEN Returned(Err("Parser", value.err))
       ELSE IF self.ns = ""
       THEN Returned(Err("Namespace", "empty"))
       ELSE LET chan == get_channel(self)
                packet == [inner |-> [variant |-> "Event",
                                      value |-> value.value, ack |-> None],
                           ns |-> self.ns]
                data == serialize(self.opts, Broadcast(packet), uid, sid)
            IN Awaiting(chan, data, uid, sid)

\* emit building its packet for the default namespace
emit_packet_default_ns(self, event, msg, uid, sid) ==
    LET value == encode_value(self.parser, msg, event)
    IN IF ~value.ok
       THEN Returned(Err("Parser", value.err))
       ELSE LET chan == get_channel(self)
                packet == [inner |-> [variant |-> "Event",
                                      value |-> value.value, ack |-> None],
                           ns |-> "/"]
                data == serialize(self.opts, Broadcast(packet), uid, sid)
            IN Awaiting(chan, data, uid, sid)

emit(self, event, msg, uid, sid) ==
    LET value == encode_value(self.parser, msg, event)
    IN IF ~value.ok
       THEN Returned(Err("Parser", value.err))
       ELSE LET chan == get_channel(self)
                packet == [inner |-> [variant |-> "Event",
                                      value |-> value.value, ack |-> None],
                           ns |-> self.ns]
                data == serialize(self.opts, Broadcast(packet), uid, sid)
            IN Awaiting(chan, data, uid, sid)

\* What a terminal call returns once driver.emit(..).await gave `outcome`:
\* join, leave and disconnect return it, emit maps the error to
\* EmitError::Driver
driver_ret(outcome) == outcome
\* emit dropping the driver's error
emit_ret_ignores_error(outcome) == Ok

emit_ret(outcome) ==
    IF outcome.ok THEN Ok ELSE Err("Driver", outcome.err)

----------------------------------------------------------------------------
\* The state machine.

NoHist ==
    [toArgs |-> {}, exceptArgs |-> {}, ofArgs |-> {}, prefixArgs |-> {},
     lastOf |-> None, lastPrefix |-> None]
Range(s) == {s[i] : i \in 1..Len(s)}

Init ==
    /\ builders = <<>>
    /\ hist = <<>>
    /\ nsetters = 0
    /\ calls = <<>>
    /\ transport = <<>>
    /\ rng = <<>>

Live == {b \in 1..Len(builders) : builders[b].live}

Create(v, h) ==
    /\ Len(builders) < MaxBuilders
    /\ builders' = Append(builders, v)
    /\ hist' = Append(hist, h)
    /\ UNCHANGED <<nsetters, calls, transport, rng>>

\* IoEmitter::new() / IoEmitter::new_msgpack()
New == Create(new, NoHist)
NewMsgpack == Create(new_msgpack, NoHist)

\* #[derive(Clone)]: builders[b].clone()
Clone(b) ==
    /\ b \in Live
    /\ Create(builders[b], hist[b])

\* a setter consumes the value in slot b and its result is bound to b again
\* a setter acting on state that a builder and its clones share
Setter_shared(b, next, h) ==
    /\ b \in Live
    /\ nsetters < MaxSetters
    /\ builders' = [k \in DOMAIN builders |->
                       IF builders[k] = builders[b] THEN next ELSE builders[k]]
    /\ hist' = [hist EXCEPT ![b] = h]
    /\ nsetters' = nsetters + 1
    /\ UNCHANGED <<calls, transport, rng>>

Setter(b, next, h) ==
    /\ b \in Live
    /\ nsetters < MaxSetters
    /\ builders' = [builders EXCEPT ![b] = next]
    /\ hist' = [hist EXCEPT ![b] = h]
    /\ nsetters' = nsetters + 1
    /\ UNCHANGED <<calls, transport, rng>>

Of(b, ns) ==
    Setter(b, of(builders[b], ns),
           [hist[b] EXCEPT !.lastOf = Some(ns), !.ofArgs = @ \cup {ns}])
To(b, rooms) ==
    Setter(b, to(builders[b], rooms),
           [hist[b] EXCEPT !.toArgs = @ \cup Range(rooms)])
Within(b, rooms) ==
    Setter(b, within(builders[b], rooms),
           [hist[b] EXCEPT !.toArgs = @ \cup Range(rooms)])
Except(b, rooms) ==
    Setter(b, except(builders[b], rooms),
           [hist[b] EXCEPT !.exceptArgs = @ \cup Range(rooms)])
Prefix(b, p) ==
    Setter(b, prefix(builders[b], p),
           [hist[b] EXCEPT !.lastPrefix = Some(p), !.prefixArgs = @ \cup {p}])

\* A terminal call on the value in slot b: the value is moved into the call,
\* the call runs up to its await (r) and is recorded.
Terminal(b, op, args, r) ==
    /\ b \in Live
    /\ builders' = [builders EXCEPT ![b] = NoBuilder]
    /\ hist' = [hist EXCEPT ![b] = NoHist]
    /\ calls' = Append(calls, [op |-> op, args |-> args,
                               self |-> builders[b], hist |-> hist[b],
                               outcome |-> None, result |-> r.ret])
    /\ transport' = transport \o
          [i \in 1..Len(r.sent) |->
              [call |-> Len(calls) + 1, chan |-> r.sent[i].chan,
               data |-> r.sent[i].data]]
    /\ rng' = rng \o r.drawn
    /\ UNCHANGED nsetters

Join(b, rooms, uid, sid) ==
    Terminal(b, "join", rooms, join(builders[b], rooms, uid, sid))
Leave(b, rooms, uid, sid) ==
    Terminal(b, "leave", rooms, leave(builders[b], rooms, uid, sid))
Disconnect(b, uid, sid) ==
    Terminal(b, "disconnect", <<>>, disconnect(builders[b], uid, sid))
Emit(b, event, msg, uid, sid) ==
    Terminal(b, "emit", <<event, msg>>, emit(builders[b], event, msg, uid, sid))

\* driver.emit(chan, data).await of call c completes with `outcome`
DriverReturn(c, outcome) ==
    /\ c \in 1..Len(calls)
    /\ ~calls[c].result.some
    /\ calls' = [calls EXCEPT ![c] =
          [@ EXCEPT !.outcome = Some(outcome),
                    !.result = Some(IF calls[c].op = "emit"
                                    THEN emit_ret(outcome)
                                    ELSE driver_ret(outcome))]]
    /\ UNCHANGED <<builders, hist, nsetters, transport, rng>>

\* Uid::new() and Sid::new() are taken never to return a value twice
FreshUids == Uids \ {rng[k].uid : k \in DOMAIN rng}
FreshSids == Sids \ {rng[k].sid : k \in DOMAIN rng}
FirstOf(S) == CHOOSE x \in S : \A y \in S : x <= y

NextUid == FirstOf(FreshUids)
NextSid == FirstOf(FreshSids)

\* Spec: every operation with every argument and every outcome of the driver;
\* Uid::new() and Sid::new() return their values in one order. The
\* specifications after it are parts of it: the same actions, each with the
\* operations and arguments a family of properties is about.
Next ==
    \/ New
    \/ NewMsgpack
    \/ \E b \in Live : Clone(b)
    \/ \E b \in Live, ns \in NsArgs : Of(b, ns)
    \/ \E b \in Live, rooms \in RoomArgs : To(b, rooms)
    \/ \E b \in Live, rooms \in RoomArgs : Within(b, rooms)
    \/ \E b \in Live, rooms \in RoomArgs : Except(b, rooms)
    \/ \E b \in Live, p \in PrefixArgs : Prefix(b, p)
    \/ \E b \in Live, rooms \in RoomArgs : Join(b, rooms, NextUid, NextSid)
    \/ \E b \in Live, rooms \in RoomArgs : Leave(b, rooms, NextUid, NextSid)
    \/ \E b \in Live : Disconnect(b, NextUid, NextSid)
    \/ \E b \in Live, event \in Events, msg \in Msgs :
          Emit(b, event, msg, NextUid, NextSid)
    \/ \E c \in 1..Len(calls), outcome \in DriverOutcomes : DriverReturn(c, outcome)

Spec == Init /\ [][Next]_vars

\* SpecWire: what the terminal operations hand to the driver. Default
\* builders, targeted with to and except, make every terminal call with every
\* room list; the driver returns Ok.
NextWire ==
    \/ New
    \/ \E b \in Live, rooms \in RoomArgs : To(b, rooms)
    \/ \E b \in Live : Except(b, <<"r1">>)
    \/ \E b \in Live, rooms \in RoomArgs : Join(b, rooms, NextUid, NextSid)
    \/ \E b \in Live, rooms \in RoomArgs : Leave(b, rooms, NextUid, NextSid)
    \/ \E b \in Live : Disconnect(b, NextUid, NextSid)
    \/ \E b \in Live, event \in Events, msg \in Msgs :
          Emit(b, event, msg, NextUid, NextSid)
    \/ \E c \in 1..Len(calls) : DriverReturn(c, Ok)

SpecWire == Init /\ [][NextWire]_vars

\* SpecDriver: the terminal calls against the driver. Builders of both
\* parsers, with or without a prefix, make every terminal call; the driver
\* returns any outcome.
NextDriver ==
    \/ New
    \/ NewMsgpack
    \/ \E b \in Live : Prefix(b, "custom")
    \/ \E b \in Live : Join(b, <<"r1">>, NextUid, NextSid)
    \/ \E b \in Live : Leave(b, <<"r1">>, NextUid, NextSid)
    \/ \E b \in Live : Disconnect(b, NextUid, NextSid)
    \/ \E b \in Live, event \in Events, msg \in Msgs :
          Emit(b, event, msg, NextUid, NextSid)
    \/ \E c \in 1..Len(calls), outcome \in DriverOutcomes : DriverReturn(c, outcome)

SpecDriver == Init /\ [][NextDriver]_vars

\* SpecCompose: the composition of a builder. Default builders and their
\* clones go through every setter with every argument and end in a disconnect
\* or an emit, up to the call of the driver.
NextCompose ==
    \/ New
    \/ \E b \in Live : Clone(b)
    \/ \E b \in Live, ns \in NsArgs : Of(b, ns)
    \/ \E b \in Live, rooms \in RoomArgs : To(b, rooms)
    \/ \E b \in Live, rooms \in RoomArgs : Within(b, rooms)
    \/ \E b \in Live, rooms \in RoomArgs : Except(b, rooms)
    \/ \E b \in Live, p \in PrefixArgs : Prefix(b, p)
    \/ \E b \in Live : Disconnect(b, NextUid, NextSid)
    \/ \E b \in Live, event \in Events : Emit(b, event, "2", NextUid, NextSid)

SpecCompose == Init /\ [][NextCompose]_vars

\* SpecIds: the terminal calls of default and cloned builders with every value
\* Uid::new() and Sid::new() can return next; the driver returns Ok.
NextIds ==
    \/ New
    \/ \E b \in Live : Clone(b)
    \/ \E b \in Live, rooms \in RoomArgs, uid \in FreshUids, sid \in FreshSids :
          Join(b, rooms, uid, sid)
    \/ \E b \in Live, rooms \in RoomArgs, uid \in FreshUids, sid \in FreshSids :
          Leave(b, rooms, uid, sid)
    \/ \E b \in Live, uid \in FreshUids, sid \in FreshSids : Disconnect(b, uid, sid)
    \/ \E b \in Live, event \in Events, msg \in Msgs,
             uid \in FreshUids, sid \in FreshSids :
          Emit(b, event, msg, uid, sid)
    \/ \E c \in 1..Len(calls) : DriverReturn(c, Ok)

SpecIds == Init /\ [][NextIds]_vars

\* SpecFlags: the flags of the targeting options. Builders of both
\* constructors go through each of the five setters and end in each of the
\* four terminal operations, up to the call of the driver.
NextFlags ==
    \/ New
    \/ NewMsgpack
    \/ \E b \in Live : Of(b, "/admin")
    \/ \E b \in Live : To(b, <<"r1">>)
    \/ \E b \in Live : Within(b, <<"r1">>)
    \/ \E b \in Live : Except(b, <<"r1">>)
    \/ \E b \in Live : Prefix(b, "custom")
    \/ \E b \in Live : Join(b, <<"r1">>, NextUid, NextSid)
    \/ \E b \in Live : Leave(b, <<"r1">>, NextUid, NextSid)
    \/ \E b \in Live : Disconnect(b, NextUid, NextSid)
    \/ \E b \in Live : Emit(b, "test", "2", NextUid, NextSid)

SpecFlags == Init /\ [][NextFlags]_vars

\* SpecEmit: emit on targeted builders. Default builders are given a
\* namespace, rooms, an except room and a prefix, and emit a value that
\* encodes or not; the driver returns Ok.
NextEmit ==
    \/ New
    \/ \E b \in Live, ns \in NsArgs : Of(b, ns)
    \/ \E b \in Live : To(b, <<"r1">>)
    \/ \E b \in Live : Except(b, <<"r1">>)
    \/ \E b \in Live : Prefix(b, "custom")
    \/ \E b \in Live, msg \in Msgs : Emit(b, "test", msg, NextUid, NextSid)
    \/ \E c \in 1..Len(calls) : DriverReturn(c, Ok)

SpecEmit == Init /\ [][NextEmit]_vars

\* SpecOutcomes: how a terminal call ends. Builders of both parsers, with the
\* default or the empty namespace, make every terminal call, emit with a value
\* that encodes or not; the driver returns Ok or an error.
NextOutcomes ==
    \/ New
    \/ NewMsgpack
    \/ \E b \in Live : Of(b, "")
    \/ \E b \in Live : Join(b, <<"r1">>, NextUid, NextSid)
    \/ \E b \in Live : Leave(b, <<"r1">>, NextUid, NextSid)
    \/ \E b \in Live : Disconnect(b, NextUid, NextSid)
    \/ \E b \in Live, msg \in Msgs : Emit(b, "test", msg, NextUid, NextSid)
    \/ \E c \in 1..Len(calls), outcome \in {Ok, Err("D::Error", "e1")} :
          DriverReturn(c, outcome)

SpecOutcomes == Init /\ [][NextOutcomes]_vars

\* SpecClones: builders and their clones side by side. Default builders are
\* cloned, each goes through setters of its own and ends in a disconnect or
\* an emit; the calls await the driver together and the driver returns Ok to
\* them in any order.
NextClones ==
    \/ New
    \/ \E b \in Live : Clone(b)
    \/ \E b \in Live : Of(b, "/admin")
    \/ \E b \in Live : To(b, <<"r1">>)
    \/ \E b \in Live : Except(b, <<"r1">>)
    \/ \E b \in Live : Prefix(b, "custom")
    \/ \E b \in Live : Disconnect(b, NextUid, NextSid)
    \/ \E b \in Live : Emit(b, "test", "2", NextUid, NextSid)
    \/ \E c \in 1..Len(calls) : DriverReturn(c, Ok)

SpecClones == Init /\ [][NextClones]_vars

----------------------------------------------------------------------------
\* Properties.

TypeOK ==
    /\ nsetters \in 0..MaxSetters
    /\ Len(builders) <= MaxBuilders

\* the serialized envelope of the i-th driver invocation, the terminal call
\* that made it, and the positions of the envelope's items
Data(i) == transport[i].data
CallOf(i) == calls[transport[i].call]
Envelopes == DOMAIN transport
TypeAt == 4
PacketAt == 5
RoomsAt == 6
OptsAt == 7
NodeIdAt == 2
IdAt == 3
IsNil(item) == item.t = "byte" /\ item.v = 192
\* the variant a terminal operation is to produce
VariantOf(op) ==
    CASE op = "emit" -> "Broadcast"
      [] op = "disconnect" -> "DisconnectSockets"
      [] op = "join" -> "AddSockets"
      [] op = "leave" -> "DelSockets"

\* C1 (as stated): a field that does not belong to the request's variant is
\* absent from the serialized envelope: the array holds only the fields the
\* variant has and no item of it is nil.
C1_AbsentNotNull ==
    \A i \in Envelopes :
        LET n == CASE VariantOf(CallOf(i).op) = "DisconnectSockets" -> 4
                   [] OTHER -> 5
        IN /\ Data(i)[1] = mp_fixarray(n)
           /\ Len(Data(i)) = n + 1
           /\ \A k \in 2..Len(Data(i)) : ~IsNil(Data(i)[k])

\* C1 (amended): every envelope is an array of the same six fields, and a
\* field that does not belong to the request's variant is encoded as nil in
\* its slot: packet and rooms are nil for DisconnectSockets, packet is nil for
\* AddSockets and DelSockets, rooms is nil for Broadcast.
C1_ForeignFieldsAreNil ==
    \A i \in Envelopes :
        LET v == VariantOf(CallOf(i).op)
        IN /\ Data(i)[1] = mp_fixarray(6)
           /\ Len(Data(i)) = 7
           /\ v = "DisconnectSockets" =>
                 IsNil(Data(i)[PacketAt]) /\ IsNil(Data(i)[RoomsAt])
           /\ v \in {"AddSockets", "DelSockets"} => IsNil(Data(i)[PacketAt])
           /\ v = "Broadcast" => IsNil(Data(i)[RoomsAt])

\* a disconnect and a join have been handed to the driver
C1_Witness ==
    /\ \E i \in Envelopes : CallOf(i).op = "disconnect"
    /\ \E i \in Envelopes : CallOf(i).op = "join"

\* C2: the discriminant of every envelope handed to the driver is one byte
\* from the table Broadcast=0, DisconnectSockets=2, AddSockets=4, DelSockets=5,
\* chosen by the variant of the terminal operation alone; 1 and 3 never occur.
C2_DiscriminantTable ==
    \A i \in Envelopes :
        LET v == VariantOf(CallOf(i).op)
            tag == Data(i)[TypeAt]
        IN /\ tag.t = "byte"
           /\ tag.v \in {0, 2, 4, 5}
           /\ tag.v = 0 <=> v = "Broadcast"
           /\ tag.v = 2 <=> v = "DisconnectSockets"
           /\ tag.v = 4 <=> v = "AddSockets"
           /\ tag.v = 5 <=> v = "DelSockets"

\* a disconnect and a leave have been handed to the driver, by builders that
\* went through setter calls
C2_Witness ==
    /\ \E i \in Envelopes : CallOf(i).op = "disconnect" /\ Data(i)[TypeAt].v = 2
    /\ \E i \in Envelopes : CallOf(i).op = "leave" /\ Data(i)[TypeAt].v = 5
    /\ nsetters > 0

\* C3: the tag alone tells which of packet / rooms carries a value: packet
\* iff the tag is 0, rooms iff the tag is 4 or 5, neither for tag 2, and
\* never both.
C3_TagDeterminesFields ==
    \A i \in Envelopes :
        LET tag == Data(i)[TypeAt].v
            hasPacket == ~IsNil(Data(i)[PacketAt])
            hasRooms == ~IsNil(Data(i)[RoomsAt])
        IN /\ hasPacket <=> tag = 0
           /\ hasRooms <=> tag \in {4, 5}
           /\ tag = 2 => ~hasPacket /\ ~hasRooms
           /\ ~(hasPacket /\ hasRooms)

\* an emit and a disconnect have been handed to the driver
C3_Witness ==
    /\ \E i \in Envelopes : Data(i)[TypeAt].v = 0 /\ Data(i)[PacketAt].t = "packet"
    /\ \E i \in Envelopes : Data(i)[TypeAt].v = 2

\* the driver invocations made by the c-th terminal call, and whether the
\* call is an emit whose payload the parser cannot encode
SentBy(c) == {i \in Envelopes : transport[i].call = c}
EncodeFails(c) ==
    /\ calls[c].op = "emit"
    /\ ~encode_value(calls[c].self.parser, calls[c].args[2], calls[c].args[1]).ok

\* C4: an emit whose payload encoder fails returns a Parser error, and the
\* driver is not invoked for that call: nothing of it reaches the transport,
\* no envelope is built and the call never awaits the driver.
C4_EncodeFailureNoPublish ==
    /\ \A c \in DOMAIN calls :
          EncodeFails(c) =>
            /\ calls[c].result.some
            /\ ~calls[c].result.v.ok
            /\ calls[c].result.v.kind = "Parser"
            /\ SentBy(c) = {}
            /\ ~calls[c].outcome.some
    /\ Len(rng) = Len(transport)

\* an emit failed to encode after another call was handed to the driver
C4_Witness ==
    /\ \E c \in DOMAIN calls : EncodeFails(c) /\ c > 1
    /\ transport # <<>>

\* C5: a terminal call whose encoding does not fail invokes the driver
\* exactly once, with the channel of its builder, and returns what the driver
\* returned: Ok for Ok, the same error for an error; the count stays one
\* after the driver returned, with success or with an error.
C5_PublishOnceOutcomeAsIs ==
    \A c \in DOMAIN calls :
        ~EncodeFails(c) =>
          /\ Cardinality(SentBy(c)) = 1
          /\ \A i \in SentBy(c) : transport[i].chan = get_channel(calls[c].self)
          /\ calls[c].result.some <=> calls[c].outcome.some
          /\ calls[c].result.some =>
                /\ calls[c].result.v.ok = calls[c].outcome.v.ok
                /\ calls[c].result.v.err = calls[c].outcome.v.err
                /\ ~calls[c].result.v.ok =>
                      calls[c].result.v.kind =
                        IF calls[c].op = "emit" THEN "Driver" ELSE "D::Error"

\* an emit got an error from the driver and another call got Ok
C5_Witness ==
    /\ \E c \in DOMAIN calls :
          /\ calls[c].op = "emit"
          /\ calls[c].outcome = Some(Err("D::Error", "e2"))
          /\ calls[c].result = Some(Err("Driver", "e2"))
    /\ \E c \in DOMAIN calls :
          calls[c].op # "emit" /\ calls[c].result = Some(Ok)

\* C6: the channel handed to the driver is "{prefix}-request#{namespace}#"
\* with the builder's prefix ("socket.io" when none was set) and namespace
\* ("/" when of was never called); builders with equal prefix and namespace
\* publish to the same channel whatever else differs.
C6_Channel ==
    \A i \in Envelopes :
        LET self == CallOf(i).self
            p == IF self.prefix.some THEN self.prefix.v ELSE "socket.io"
        IN /\ transport[i].chan = p \o "-request#" \o self.ns \o "#"
           /\ CallOf(i).hist.prefixArgs = {} /\ CallOf(i).hist.ofArgs = {} =>
                 transport[i].chan = "socket.io-request#/#"
           /\ self.prefix = Some("custom") /\ self.ns = "/admin" =>
                 transport[i].chan = "custom-request#/admin#"
           /\ \A j \in Envelopes :
                 CallOf(j).self.prefix = self.prefix /\ CallOf(j).self.ns = self.ns =>
                   transport[j].chan = transport[i].chan

\* two builders with the same custom prefix, different rooms and different
\* terminal operations published to one channel
C6_Witness ==
    \E i, j \in Envelopes :
        /\ transport[i].chan = "custom-request#/#"
        /\ transport[j].chan = "custom-request#/#"
        /\ CallOf(i).self.opts # CallOf(j).self.opts
        /\ CallOf(i).op = "emit"
        /\ CallOf(j).op = "disconnect"

\* C7: to, within and except accumulate: the rooms of a builder, of the
\* builder a terminal call consumed and of the options in its envelope are,
\* as a set, all the rooms passed to to and within, its except rooms all the
\* rooms passed to except; within gives the builder that to gives.
Accumulated(opts, h) ==
    /\ Range(opts.rooms) = h.toArgs
    /\ Range(opts.except) = h.exceptArgs
C7_Accumulate ==
    /\ \A b \in Live : Accumulated(builders[b].opts, hist[b])
    /\ \A c \in DOMAIN calls : Accumulated(calls[c].self.opts, calls[c].hist)
    /\ \A i \in Envelopes : Accumulated(Data(i)[OptsAt].v, CallOf(i).hist)
    /\ \A b \in Live, rooms \in RoomArgs :
          within(builders[b], rooms) = to(builders[b], rooms)

\* a builder went through two to / within calls, a room being passed twice
C7_Witness ==
    \E b \in Live :
        /\ builders[b].opts.rooms = <<"r2", "r1", "r2", "r1">>
        /\ hist[b].toArgs = {"r1", "r2"}

\* C8: of and prefix replace, the last call wins: the namespace is the
\* argument of the last of call ("/" if none), the prefix that of the last
\* prefix call (none, hence "socket.io", if none), and the channel and the
\* packet of an envelope are built from these last values only.
LastNs(h) == IF h.lastOf.some THEN h.lastOf.v ELSE "/"
LastWins(self, h) ==
    /\ self.ns = LastNs(h)
    /\ self.prefix = h.lastPrefix
C8_LastWins ==
    /\ \A b \in Live : LastWins(builders[b], hist[b])
    /\ \A i \in Envelopes :
          LET h == CallOf(i).hist
              p == IF h.lastPrefix.some THEN h.lastPrefix.v ELSE "socket.io"
          IN /\ LastWins(CallOf(i).self, h)
             /\ transport[i].chan = p \o "-request#" \o LastNs(h) \o "#"
             /\ CallOf(i).op = "emit" =>
                   /\ Data(i)[PacketAt].t = "packet"
                   /\ Data(i)[PacketAt].v.ns = LastNs(h)

\* an emit was published by a builder on which of was called twice with
\* different namespaces
C8_Witness ==
    \E i \in Envelopes :
        /\ CallOf(i).op = "emit"
        /\ Cardinality(CallOf(i).hist.ofArgs) = 2

\* C9: join yields AddSockets, leave DelSockets, disconnect DisconnectSockets
\* and a successful emit Broadcast; the rooms of a join or leave envelope are
\* the caller's rooms in their order with their duplicates, and the options
\* of the envelope are the builder's options, unchanged by the rooms.
C9_TerminalVariant ==
    \A i \in Envelopes :
        LET call == CallOf(i)
            d == Data(i)
        IN /\ call.op = "join" =>
                 /\ d[TypeAt].v = 4
                 /\ d[RoomsAt].t = "rooms"
                 /\ d[RoomsAt].v = call.args
           /\ call.op = "leave" =>
                 /\ d[TypeAt].v = 5
                 /\ d[RoomsAt].t = "rooms"
                 /\ d[RoomsAt].v = call.args
           /\ call.op = "disconnect" => d[TypeAt].v = 2
           /\ call.op = "emit" => d[TypeAt].v = 0 /\ d[PacketAt].t = "packet"
           /\ d[OptsAt].t = "opts"
           /\ d[OptsAt].v = call.self.opts

\* a builder targeting r1 and excluding r1 joined the rooms r2, r1, r2
C9_Witness ==
    \E i \in Envelopes :
        /\ CallOf(i).op = "join"
        /\ CallOf(i).args = <<"r2", "r1", "r2">>
        /\ Data(i)[RoomsAt].v = <<"r2", "r1", "r2">>
        /\ Data(i)[OptsAt].v.rooms = <<"r1">>
        /\ Data(i)[OptsAt].v.except = <<"r1">>

\* C10 (as stated): all envelopes of the process carry the same node_id and
\* no two envelopes carry the same request_id.
C10_OneNodeIdUniqueRequestId ==
    \A i, j \in Envelopes :
        /\ Data(i)[NodeIdAt] = Data(j)[NodeIdAt]
        /\ i # j => Data(i)[IdAt] # Data(j)[IdAt]

\* C10 (amended): Request::new draws a node_id and a request_id anew for
\* every envelope: the i-th envelope carries the i-th value returned by
\* Uid::new() and the i-th value returned by Sid::new(), no other draw is
\* made, and so no two envelopes carry the same node_id or the same
\* request_id.
C10_IdsDrawnPerRequest ==
    /\ Len(rng) = Len(transport)
    /\ \A i \in Envelopes :
          /\ Data(i)[NodeIdAt] = mp_value("uid", rng[i].uid)
          /\ Data(i)[IdAt] = mp_value("sid", rng[i].sid)
    /\ \A i, j \in Envelopes :
          i # j =>
            /\ Data(i)[NodeIdAt] # Data(j)[NodeIdAt]
            /\ Data(i)[IdAt] # Data(j)[IdAt]

\* a builder and its clone made terminal calls, and their envelopes carry
\* different node_ids and different request_ids
C10_Witness ==
    /\ Len(builders) = 2
    /\ \E i, j \in Envelopes :
          /\ CallOf(i).self = CallOf(j).self
          /\ Data(i)[NodeIdAt].v = 3
          /\ Data(j)[NodeIdAt].v = 1
          /\ Data(i)[IdAt].v # Data(j)[IdAt].v

\* C14: the namespace of every builder, of every builder a terminal call
\* consumed, and of every channel and packet derived from it is a non-empty
\* string, whatever argument of was called with.
C14_NamespaceNonEmpty ==
    /\ \A b \in Live : builders[b].ns # ""
    /\ \A c \in DOMAIN calls : calls[c].self.ns # ""
    /\ \A i \in Envelopes :
          LET self == CallOf(i).self
              p == IF self.prefix.some THEN self.prefix.v ELSE "socket.io"
          IN /\ transport[i].chan # p \o "-request##"
             /\ CallOf(i).op = "emit" => Data(i)[PacketAt].v.ns # ""

\* C17: the flags of the targeting options are exactly {Broadcast} in every
\* builder, whichever constructor made it and whichever setters were called
\* on it, and in the options of every envelope handed to the driver.
C17_BroadcastFlag ==
    /\ \A b \in Live : builders[b].opts.flags = {"Broadcast"}
    /\ \A c \in DOMAIN calls : calls[c].self.opts.flags = {"Broadcast"}
    /\ \A i \in Envelopes :
          /\ Data(i)[OptsAt].t = "opts"
          /\ Data(i)[OptsAt].v.flags = {"Broadcast"}

\* a builder made by new_msgpack, on which of and except were called, handed
\* an envelope to the driver while a builder made by new is still to make its
\* call
C17_Witness ==
    /\ \E i \in Envelopes :
          /\ CallOf(i).self.parser = "MsgPack"
          /\ CallOf(i).hist.ofArgs = {"/admin"}
          /\ CallOf(i).hist.exceptArgs = {"r1"}
          /\ Data(i)[OptsAt].v.flags = {"Broadcast"}
    /\ \E b \in Live : builders[b].parser = "Common"

\* C18: for every emit that was handed to the driver (every successful emit
\* is one), the namespace in the Broadcast packet is the namespace between
\* "-request#" and "#" in the channel, both are the namespace the builder had
\* when emit was called, and the options in the envelope are the options the
\* builder had then.
C18_PacketChannelSameNs ==
    \A i \in Envelopes :
        CallOf(i).op = "emit" =>
          LET self == CallOf(i).self
              packet == Data(i)[PacketAt]
              p == IF self.prefix.some THEN self.prefix.v ELSE "socket.io"
          IN /\ packet.t = "packet"
             /\ transport[i].chan = p \o "-request#" \o packet.v.ns \o "#"
             /\ packet.v.ns = self.ns
             /\ Data(i)[OptsAt].v = self.opts

\* an emit on a builder with the namespace /admin and the room r1 returned Ok
C18_Witness ==
    \E i \in Envelopes :
        /\ CallOf(i).op = "emit"
        /\ CallOf(i).result = Some(Ok)
        /\ CallOf(i).self.ns = "/admin"
        /\ Data(i)[PacketAt].v.ns = "/admin"
        /\ transport[i].chan = "socket.io-request#/admin#"
        /\ Data(i)[OptsAt].v.rooms = <<"r1">>

C16_OwnState ==
    \A c \in DOMAIN calls :
        /\ ~EncodeFails(c) => Cardinality(SentBy(c)) = 1
        /\ \A i \in SentBy(c) :
              LET self == calls[c].self
                  p == IF self.prefix.some THEN self.prefix.v ELSE "socket.io"
              IN /\ transport[i].chan = p \o "-request#" \o self.ns \o "#"
                 /\ Data(i)[OptsAt].v = self.opts
                 /\ calls[c].op = "emit" => Data(i)[PacketAt].v.ns = self.ns
C16_OneAtATime ==
    /\ Cardinality({k \in DOMAIN builders : builders'[k] # builders[k]}) <= 1
    /\ Len(builders') > Len(builders) =>
          /\ \A k \in DOMAIN builders : builders'[k] = builders[k]
          /\ \/ builders'[Len(builders')] \in {new, new_msgpack}
             \/ \E k \in Live : builders'[Len(builders')] = builders[k]
    /\ Cardinality({c \in DOMAIN calls : calls'[c] # calls[c]}) <= 1
    /\ \A i \in DOMAIN transport : transport'[i] = transport[i]
C16_Independent == []C16_OwnState /\ [][C16_OneAtATime]_vars

\* a builder targeting r1 was cloned (to was called once, of once, and both
\* builders target r1), of was then called on one of the two only, both made
\* their call, the second call returned while the first is awaiting the
\* driver, and each envelope is on its own builder's channel
C16_Witness ==
    /\ Len(calls) = 2
    /\ nsetters = 2
    /\ calls[1].self.opts.rooms = <<"r1">>
    /\ calls[2].self.opts.rooms = <<"r1">>
    /\ calls[1].self.ns = "/admin"
    /\ calls[2].self.ns = "/"
    /\ ~calls[1].result.some
    /\ calls[2].result = Some(Ok)
    /\ transport[1].chan = "socket.io-request#/admin#"
    /\ transport[2].chan = "socket.io-request#/#"

====
